---- MODULE Spec2Model ----
(***************************************************************************)
(* A model of exr-separator (src/exr.py, src/main.py): the channel catalog *)
(* builder, the filename transformer and the parallel separation of a      *)
(* sequence of EXR files into per-channel files.                           *)
(*                                                                         *)
(* Python strings are sequences of one-character strings, so that the      *)
(* source's indexing, splitting and character tests are computed.          *)
(***************************************************************************)
EXTENDS Integers, Sequences, FiniteSets, TLC

VARIABLES
    header,         \* EXRSequence._header['channels']: label -> pixel type
    remaining,      \* labels the scan loop of _get_channels_info has not visited yet
    channels_info,  \* the dict being built: entries in insertion order
    cpc,            \* position in _get_channels_info: "scan", "done", "KeyError"
    file,           \* the file name given to append_channel_name_to_filename
    channel_name,   \* its channel_name argument
    result,         \* its return value
    fpc,            \* "call", "done", "IndexError"
    exr_files,      \* EXRSequence._exr_files
    main_pc,        \* position of main.py / EXRSequence.separate
    process_args,   \* work units submitted to the pool and not yet taken
    submitted,      \* the process_args list as separate() built it
    workers,        \* per pool worker: the unit it runs and where it is in save_channel
    fs,             \* output paths that exist on disk
    written,        \* [unit, path]: which unit created which output path
    saved,          \* units that reached "File saved"
    failed,         \* units whose save_channel raised
    open_handles,   \* [owner, handle]: handles open right now
    leaked,         \* [owner, handle]: handles still open when their operation ended
    faults          \* number of I/O failures injected so far

vars == <<header, remaining, channels_info, cpc, file, channel_name, result, fpc,
          exr_files, main_pc, process_args, submitted, workers, fs, written, saved,
          failed, open_handles, leaked, faults>>

catalogVars == <<header, remaining, channels_info, cpc>>
filenameVars == <<file, channel_name, result, fpc>>
separateVars == <<exr_files, main_pc, process_args, submitted, workers, fs, written,
                  saved, failed, open_handles, leaked, faults>>

(***************************************************************************)
(* Bounds of the model.                                                    *)
(***************************************************************************)
MaxLabels == 5
MaxStem == 4
MaxFiles == 2
MaxFaults == 1
NumWorkers == 2

(***************************************************************************)
(* Characters and the str methods the source uses.                         *)
(***************************************************************************)
UpperLetters == {"A","B","C","D","E","F","G","H","I","J","K","L","M",
                 "N","O","P","Q","R","S","T","U","V","W","X","Y","Z"}
LowerLetters == {"a","b","c","d","e","f","g","h","i","j","k","l","m",
                 "n","o","p","q","r","s","t","u","v","w","x","y","z"}
DecimalDigits == {"0","1","2","3","4","5","6","7","8","9"}

IsAlpha(c) == c \in UpperLetters \cup LowerLetters
IsDecimal(c) == c \in DecimalDigits

LowerOf == [c \in UpperLetters |->
    CASE c = "A" -> "a" [] c = "B" -> "b" [] c = "C" -> "c" [] c = "D" -> "d"
      [] c = "E" -> "e" [] c = "F" -> "f" [] c = "G" -> "g" [] c = "H" -> "h"
      [] c = "I" -> "i" [] c = "J" -> "j" [] c = "K" -> "k" [] c = "L" -> "l"
      [] c = "M" -> "m" [] c = "N" -> "n" [] c = "O" -> "o" [] c = "P" -> "p"
      [] c = "Q" -> "q" [] c = "R" -> "r" [] c = "S" -> "s" [] c = "T" -> "t"
      [] c = "U" -> "u" [] c = "V" -> "v" [] c = "W" -> "w" [] c = "X" -> "x"
      [] c = "Y" -> "y" [] c = "Z" -> "z"]
Lower(c) == IF c \in UpperLetters THEN LowerOf[c] ELSE c

Last(s) == s[Len(s)]
Contains(s, c) == \E i \in 1..Len(s) : s[i] = c
FirstIndexOf(s, c) == CHOOSE i \in 1..Len(s) : s[i] = c /\ \A j \in 1..(i-1) : s[j] # c
LastIndexOf(s, c) == CHOOSE i \in 1..Len(s) : s[i] = c /\ \A j \in (i+1)..Len(s) : s[j] # c
\* a variant that splits at the last "." (rsplit) instead of the first
SplitDotLast(s) == IF Contains(s, ".") THEN SubSeq(s, 1, LastIndexOf(s, ".") - 1) ELSE s
\* str.split('.')[0]
SplitDotFirst(s) == IF Contains(s, ".") THEN SubSeq(s, 1, FirstIndexOf(s, ".") - 1) ELSE s

(***************************************************************************)
(* EXRChannelInfo                                                          *)
(***************************************************************************)
compare_values == [c \in {"r","g","b","a","x","y","z","w"} |->
    CASE c \in {"r","x"} -> 0 [] c \in {"g","y"} -> 1
      [] c \in {"b","z"} -> 2 [] c \in {"a","w"} -> 3]

\* compare_values[ele] raises KeyError
CompareLabelsRaises(element) == Lower(Last(element)) \notin DOMAIN compare_values
compare_labels(element) == compare_values[Lower(Last(element))]

\* list.sort(key=...) is stable: an element goes after those whose key is not greater
RECURSIVE InsertByKey(_, _)
InsertByKey(sorted, x) ==
    IF sorted = <<>> THEN <<x>>
    ELSE IF compare_labels(Last(sorted)) <= compare_labels(x) THEN Append(sorted, x)
    ELSE Append(InsertByKey(SubSeq(sorted, 1, Len(sorted) - 1), x), Last(sorted))

RECURSIVE SortByKey(_)
SortByKey(labels) ==
    IF labels = <<>> THEN <<>>
    ELSE InsertByKey(SortByKey(SubSeq(labels, 1, Len(labels) - 1)), Last(labels))

AddLabelRaises(labels, label) ==
    \E i \in 1..Len(Append(labels, label)) : CompareLabelsRaises(Append(labels, label)[i])
add_label(labels, label) == SortByKey(Append(labels, label))

is_color(info) == info.name = <<"C">>
is_depth(info) == info.name = <<"Z">>

\* a variant that forgets the depth rule and lets single-label groups through
is_valid_any_name(info) == Len(info.labels) \in {1, 3, 4}

is_valid(info) ==
    IF is_depth(info) THEN Len(info.labels) = 1
    ELSE Len(info.labels) \in {3, 4}

TargetSlots == <<"R", "G", "B", "A">>
get_target_channels(info) == SubSeq(TargetSlots, 1, IF Len(info.labels) < 4 THEN Len(info.labels) ELSE 4)

\* get_pixels_data: target channel -> the source label whose pixels it receives
get_pixels_data(info) ==
    [i \in 1..Len(get_target_channels(info)) |->
        info.labels[IF is_depth(info) THEN 1 ELSE i]]

(***************************************************************************)
(* EXRSequence._get_channels_info                                          *)
(***************************************************************************)
color_channel_labels == {<<"R">>, <<"G">>, <<"B">>, <<"A">>}
depth_channel_labels == {<<"Z">>}
Unrecognized == <<"?">>

\* the if/elif chain at the head of the scan loop
ChannelNameOf(channel_label) ==
    IF channel_label \in color_channel_labels THEN <<"C">>
    ELSE IF channel_label \in depth_channel_labels THEN <<"Z">>
    ELSE IF Contains(channel_label, ".") THEN SplitDotFirst(channel_label)
    ELSE Unrecognized

IsRecognized(channel_label) ==
    \/ channel_label \in color_channel_labels
    \/ channel_label \in depth_channel_labels
    \/ Contains(channel_label, ".")

Names(info_list) == {info_list[i].name : i \in 1..Len(info_list)}
IndexOfName(info_list, name) == CHOOSE i \in 1..Len(info_list) : info_list[i].name = name
Lookup(info_list, name) == info_list[IndexOfName(info_list, name)]

\* `if channel_name not in channels_info: channels_info[channel_name] = EXRChannelInfo(...)`
WithChannel(info_list, name, channel_type) ==
    IF name \in Names(info_list) THEN info_list
    ELSE Append(info_list, [name |-> name, type |-> channel_type, labels |-> <<>>])

\* one iteration of the scan loop; the label is recognized
ScanRaises(info_list, channel_label, channel_type) ==
    LET name == ChannelNameOf(channel_label)
        with == WithChannel(info_list, name, channel_type)
    IN  AddLabelRaises(Lookup(with, name).labels, channel_label)

ScanOne(info_list, channel_label, channel_type) ==
    LET name == ChannelNameOf(channel_label)
        with == WithChannel(info_list, name, channel_type)
        k == IndexOfName(with, name)
    IN  [with EXCEPT ![k].labels = add_label(@, channel_label)]

\* the filter loops
RECURSIVE FilterValid(_)
FilterValid(info_list) ==
    IF info_list = <<>> THEN <<>>
    ELSE IF is_valid(info_list[1]) THEN <<info_list[1]>> \o FilterValid(Tail(info_list))
    ELSE FilterValid(Tail(info_list))

(***************************************************************************)
(* Headers the catalog is built from.                                      *)
(***************************************************************************)
L_R == <<"R">>
L_G == <<"G">>
L_B == <<"B">>
L_A == <<"A">>
L_Z == <<"Z">>
L_ZdotX == <<"Z", ".", "x">>
L_normalX == <<"n","o","r","m","a","l",".","X">>
L_normalY == <<"n","o","r","m","a","l",".","Y">>
L_normalZ == <<"n","o","r","m","a","l",".","Z">>
L_normalR == <<"n","o","r","m","a","l",".","R">>
L_normalAW == <<"n","o","r","m","a","l",".","a",".","w">>
L_normalU == <<"n","o","r","m","a","l",".","u">>
L_depth == <<"d","e","p","t","h">>
N_C == <<"C">>
N_Z == <<"Z">>
N_normal == <<"n","o","r","m","a","l">>

LabelUniverse == {L_R, L_G, L_B, L_A, L_Z, L_ZdotX, L_normalX, L_normalY, L_normalZ,
                  L_normalR, L_normalAW, L_normalU, L_depth}

\* Imath pixel types of a header: the usual layout, and one whose groups mix types
UsualTypes == [l \in LabelUniverse |-> IF l \in {L_Z, L_ZdotX} THEN "FLOAT" ELSE "HALF"]
MixedTypes == [l \in LabelUniverse |-> IF l \in {L_G, L_Z, L_normalY} THEN "FLOAT" ELSE "HALF"]

ExampleLabels == {L_R, L_G, L_B, L_A, L_Z, L_normalX, L_normalY, L_normalZ}
Restrict(f, S) == [x \in S |-> f[x]]
ExampleHeader == Restrict(UsualTypes, ExampleLabels)

Headers ==
    {Restrict(MixedTypes, S) : S \in {T \in SUBSET LabelUniverse : Cardinality(T) <= MaxLabels}}
    \cup {ExampleHeader}

(***************************************************************************)
(* _get_channels_info, one loop iteration per step                         *)
(***************************************************************************)
CatalogIdle ==
    /\ header = <<>> /\ remaining = {} /\ channels_info = <<>> /\ cpc = "idle"

FilenameIdle ==
    /\ file = <<>> /\ channel_name = <<>> /\ result = <<>> /\ fpc = "idle"

SeparateIdle ==
    /\ exr_files = {} /\ main_pc = "idle" /\ process_args = <<>> /\ submitted = <<>>
    /\ workers = <<>> /\ fs = {} /\ written = {} /\ saved = {} /\ failed = {}
    /\ open_handles = {} /\ leaked = {} /\ faults = 0

InitCatalog ==
    /\ header \in Headers
    /\ remaining = DOMAIN header
    /\ channels_info = <<>>
    /\ cpc = "scan"
    /\ FilenameIdle
    /\ SeparateIdle

\* `logger.warning('Unrecognized channel'); continue`
ScanSkip ==
    /\ cpc = "scan"
    /\ \E channel_label \in remaining :
        /\ ~IsRecognized(channel_label)
        /\ remaining' = remaining \ {channel_label}
    /\ UNCHANGED <<header, channels_info, cpc>>
    /\ UNCHANGED <<filenameVars, separateVars>>

ScanAdd ==
    /\ cpc = "scan"
    /\ \E channel_label \in remaining :
        /\ IsRecognized(channel_label)
        /\ ~ScanRaises(channels_info, channel_label, header[channel_label])
        /\ channels_info' = ScanOne(channels_info, channel_label, header[channel_label])
        /\ remaining' = remaining \ {channel_label}
    /\ UNCHANGED <<header, cpc>>
    /\ UNCHANGED <<filenameVars, separateVars>>

\* compare_labels raises KeyError inside add_label: the constructor is left by the exception
ScanKeyError ==
    /\ cpc = "scan"
    /\ \E channel_label \in remaining :
        /\ IsRecognized(channel_label)
        /\ ScanRaises(channels_info, channel_label, header[channel_label])
        /\ remaining' = remaining \ {channel_label}
    /\ cpc' = "KeyError"
    /\ UNCHANGED <<header, channels_info>>
    /\ UNCHANGED <<filenameVars, separateVars>>

FilterChannels ==
    /\ cpc = "scan"
    /\ remaining = {}
    /\ channels_info' = FilterValid(channels_info)
    /\ cpc' = "done"
    /\ UNCHANGED <<header, remaining>>
    /\ UNCHANGED <<filenameVars, separateVars>>

NextCatalog == ScanSkip \/ ScanAdd \/ ScanKeyError \/ FilterChannels

SpecCatalog == InitCatalog /\ [][NextCatalog]_vars

\* the whole of _get_channels_info on a header visited in the order `order`
RECURSIVE ScanAll(_, _, _)
ScanAll(info_list, hdr, order) ==
    IF order = <<>> THEN [raised |-> FALSE, info |-> info_list]
    ELSE IF ~IsRecognized(order[1]) THEN ScanAll(info_list, hdr, Tail(order))
    ELSE IF ScanRaises(info_list, order[1], hdr[order[1]]) THEN [raised |-> TRUE, info |-> info_list]
    ELSE ScanAll(ScanOne(info_list, order[1], hdr[order[1]]), hdr, Tail(order))

GetChannelsInfo(hdr, order) ==
    LET scanned == ScanAll(<<>>, hdr, order)
    IN  IF scanned.raised THEN scanned ELSE [raised |-> FALSE, info |-> FilterValid(scanned.info)]

(***************************************************************************)
(* Claims about the catalog (checked under SpecCatalog)                    *)
(***************************************************************************)
\* the header labels a claim counts into group `name`, by the priority rules as stated
ClaimGroupOf(l) ==
    IF l \in {<<"R">>, <<"G">>, <<"B">>, <<"A">>} THEN <<"C">>
    ELSE IF l = <<"Z">> THEN <<"Z">>
    ELSE IF \E i \in 1..Len(l) : l[i] = "."
         THEN SubSeq(l, 1, (CHOOSE i \in 1..Len(l) : l[i] = "." /\ \A j \in 1..(i-1) : l[j] # ".") - 1)
    ELSE <<"skipped">>
ClaimLabelsOf(hdr, name) == {l \in DOMAIN hdr : ClaimGroupOf(l) = name}
ClaimGroups(hdr) == {ClaimGroupOf(l) : l \in DOMAIN hdr} \ {<<"skipped">>}
ClaimCountValid(name, n) == IF name = <<"Z">> THEN n = 1 ELSE n \in {3, 4}
LabelSet(info) == {info.labels[i] : i \in 1..Len(info.labels)}

\* C1: every group in the returned catalog is valid (depth: exactly 1 label; any other:
\* 3 or 4 labels), and every group of the header whose label count is outside these
\* values is absent from the catalog, whatever its name.
C1_CatalogGroupsValid ==
    cpc = "done" =>
        /\ \A i \in 1..Len(channels_info) :
              ClaimCountValid(channels_info[i].name, Len(channels_info[i].labels))
        /\ \A g \in ClaimGroups(header) :
              ~ClaimCountValid(g, Cardinality(ClaimLabelsOf(header, g)))
                  => g \notin Names(channels_info)

\* a catalog was returned that keeps a colour group while the depth group, which has the
\* two labels Z and Z.x, was discarded
C1_Witness ==
    /\ cpc = "done"
    /\ {L_Z, L_ZdotX} \subseteq DOMAIN header
    /\ N_Z \notin Names(channels_info)
    /\ N_C \in Names(channels_info)

\* C2: labels are classified by the priority rules (R/G/B/A -> "C", "Z" -> "Z", dotted ->
\* prefix before the first ".", otherwise skipped), and the labels of each group kept in
\* the catalog are exactly the header labels classified to its name; the example header
\* yields exactly C (4 labels), Z (1 label) and normal (3 labels).
C2_LabelsClassified ==
    cpc = "done" =>
        /\ \A i \in 1..Len(channels_info) :
              /\ LabelSet(channels_info[i]) = ClaimLabelsOf(header, channels_info[i].name)
              /\ Len(channels_info[i].labels) = Cardinality(ClaimLabelsOf(header, channels_info[i].name))
              /\ \A j \in 1..Len(channels_info) : channels_info[j].name = channels_info[i].name => j = i
        /\ Names(channels_info) =
              {g \in ClaimGroups(header) : ClaimCountValid(g, Cardinality(ClaimLabelsOf(header, g)))}
        /\ header = ExampleHeader =>
              /\ Names(channels_info) = {N_C, N_Z, N_normal}
              /\ Len(Lookup(channels_info, N_C).labels) = 4
              /\ Len(Lookup(channels_info, N_Z).labels) = 1
              /\ Len(Lookup(channels_info, N_normal).labels) = 3

\* the example header was catalogued
C2_Witness ==
    /\ cpc = "done"
    /\ header = ExampleHeader
    /\ Len(channels_info) = 3

\* C5: building the catalog is never fatal: no header makes the builder leave by an
\* exception.
C5_BuilderNeverFatal == cpc # "KeyError"

\* C9: in every non-depth group kept in the catalog the label at position i has
\* comparator key i.
C9_LabelAtItsSlot ==
    cpc = "done" =>
        \A i \in 1..Len(channels_info) :
            channels_info[i].name # <<"Z">> =>
                \A k \in 1..Len(channels_info[i].labels) :
                    compare_labels(get_pixels_data(channels_info[i])[k]) = k - 1

(***************************************************************************)
(* EXRSequence.append_channel_name_to_filename                             *)
(***************************************************************************)
\* pathlib's PurePath.stem and PurePath.suffix of a file name
HasSuffix(name) == Contains(name, ".") /\ 1 < LastIndexOf(name, ".") /\ LastIndexOf(name, ".") < Len(name)
PathStem(name) == IF HasSuffix(name) THEN SubSeq(name, 1, LastIndexOf(name, ".") - 1) ELSE name
PathSuffix(name) == IF HasSuffix(name) THEN SubSeq(name, LastIndexOf(name, "."), Len(name)) ELSE <<>>

\* the first loop: while filename_chars[-1].isdecimal(): frame_number.insert(0, pop())
RECURSIVE PopDecimal(_, _)
PopDecimal(filename_chars, frame_number) ==
    IF filename_chars = <<>> THEN [raised |-> TRUE, chars |-> filename_chars, frame |-> frame_number]
    ELSE IF IsDecimal(Last(filename_chars))
         THEN PopDecimal(SubSeq(filename_chars, 1, Len(filename_chars) - 1),
                         <<Last(filename_chars)>> \o frame_number)
    ELSE [raised |-> FALSE, chars |-> filename_chars, frame |-> frame_number]

\* a variant without the second loop: only the digits are taken off the stem
PopNonAlphaSkipped(filename_chars, frame_number) ==
    [raised |-> filename_chars = <<>>, chars |-> filename_chars, frame |-> frame_number]

\* the second loop: while not filename_chars[-1].isalpha(): frame_number.insert(0, pop())
RECURSIVE PopNonAlpha(_, _)
PopNonAlpha(filename_chars, frame_number) ==
    IF filename_chars = <<>> THEN [raised |-> TRUE, chars |-> filename_chars, frame |-> frame_number]
    ELSE IF ~IsAlpha(Last(filename_chars))
         THEN PopNonAlpha(SubSeq(filename_chars, 1, Len(filename_chars) - 1),
                          <<Last(filename_chars)>> \o frame_number)
    ELSE [raised |-> FALSE, chars |-> filename_chars, frame |-> frame_number]

\* both loops on a stem
SplitStem(stem) ==
    LET first == PopDecimal(stem, <<>>)
    IN  IF first.raised THEN first ELSE PopNonAlpha(first.chars, first.frame)

AppendRaises(f, name) == SplitStem(PathStem(f)).raised

\* a variant that drops the frame number from the output name
append_without_frame(f, name) ==
    LET split == SplitStem(PathStem(f))
    IN  split.chars \o <<".">> \o name \o PathSuffix(f)

append_channel_name_to_filename(f, name) ==
    LET split == SplitStem(PathStem(f))
    IN  split.chars \o <<".">> \o name \o split.frame \o PathSuffix(f)

(***************************************************************************)
(* File names and channel names the transformer is applied to.             *)
(***************************************************************************)
StemAlphabet == {"a", "1", "_", "."}
DotExr == <<".", "e", "x", "r">>
SeqsUpTo(A, n) == UNION {[1..k -> A] : k \in 0..n}
ExampleFile == <<"b","e","a","u","t","y","_","0","0","4","2">> \o DotExr
\* what glob('*.exr') can return
FileNames == {s \o DotExr : s \in SeqsUpTo(StemAlphabet, MaxStem)} \cup {ExampleFile}
N_light1 == <<"l","i","g","h","t","1">>
N_empty == <<>>
ChannelNames == {N_C, N_Z, N_normal, N_light1, N_empty}

InitFilename ==
    /\ file \in FileNames
    /\ channel_name \in ChannelNames
    /\ result = <<>>
    /\ fpc = "call"
    /\ CatalogIdle
    /\ SeparateIdle

TransformReturns ==
    /\ fpc = "call"
    /\ ~AppendRaises(file, channel_name)
    /\ result' = append_channel_name_to_filename(file, channel_name)
    /\ fpc' = "done"
    /\ UNCHANGED <<file, channel_name>>
    /\ UNCHANGED <<catalogVars, separateVars>>

\* filename_chars[-1] on the emptied list
TransformIndexError ==
    /\ fpc = "call"
    /\ AppendRaises(file, channel_name)
    /\ fpc' = "IndexError"
    /\ UNCHANGED <<file, channel_name, result>>
    /\ UNCHANGED <<catalogVars, separateVars>>

NextFilename == TransformReturns \/ TransformIndexError

SpecFilename == InitFilename /\ [][NextFilename]_vars

(***************************************************************************)
(* Claims about the filename transformer (checked under SpecFilename)      *)
(***************************************************************************)
HasAlpha(s) == \E i \in 1..Len(s) : s[i] \in UpperLetters \cup LowerLetters
NoAlpha(s) == ~HasAlpha(s)
TrailingDigits(s) ==
    LET k == CHOOSE k \in 0..Len(s) :
                /\ \A i \in (k+1)..Len(s) : s[i] \in DecimalDigits
                /\ (k > 0 => s[k] \notin DecimalDigits)
    IN  SubSeq(s, k + 1, Len(s))

\* C3: for a stem with an alphabetic character the result is base.channel+frame+ext,
\* where base+frame is the stem, frame is the maximal trailing run of non-alphabetic
\* characters and base ends with an alphabetic character; ("beauty_0042", ".exr", "C")
\* gives "beauty.C_0042.exr".
C3_TransformShape ==
    /\ (fpc # "call" /\ HasAlpha(PathStem(file))) =>
          /\ fpc = "done"
          /\ \E k \in 1..Len(PathStem(file)) :
                LET base == SubSeq(PathStem(file), 1, k)
                    frame == SubSeq(PathStem(file), k + 1, Len(PathStem(file)))
                IN  /\ NoAlpha(frame)
                    /\ HasAlpha(<<base[k]>>)
                    /\ result = base \o <<".">> \o channel_name \o frame \o PathSuffix(file)
    /\ (fpc = "done" /\ file = ExampleFile /\ channel_name = N_C) =>
          result = <<"b","e","a","u","t","y",".","C","_","0","0","4","2",".","e","x","r">>

\* a stem without trailing digits lost its trailing punctuation to the frame
C3_Witness ==
    /\ fpc = "done"
    /\ file = <<"a", "_">> \o DotExr
    /\ channel_name = N_C
    /\ result = <<"a", ".", "C", "_">> \o DotExr

\* C4: splitting the stem of the output again yields the same digit run as splitting the
\* input stem, for every channel name a catalog can hold.
C4_RoundTrip ==
    fpc = "done" => TrailingDigits(PathStem(result)) = TrailingDigits(PathStem(file))

\* C10: the transformer returns a filename for every non-empty stem; neither loop reads
\* past the start of the stem.
C10_TransformTotal == fpc # "IndexError"

(***************************************************************************)
(* main.py, EXRSequence.__init__, separate and save_channel                *)
(***************************************************************************)
F_a1 == <<"a", "1">> \o DotExr
F_a2 == <<"a", "2">> \o DotExr
F_1 == <<"1">> \o DotExr
FolderListing == <<F_a1, F_1, F_a2>>

\* what _get_files can return: the files of the folder, in the listing's order
RECURSIVE SubLists(_)
SubLists(list) ==
    IF list = <<>> THEN {<<>>}
    ELSE LET rest == SubLists(Tail(list))
         IN  rest \cup {<<list[1]>> \o r : r \in rest}
FileLists == {l \in SubLists(FolderListing) : Len(l) <= MaxFiles}

\* headers of the first file, with the order in which the dict yields its labels
FirstFileHeaders ==
    { [hdr |-> Restrict(UsualTypes, {L_R, L_G, L_B, L_Z}), order |-> <<L_B, L_G, L_R, L_Z>>],
      [hdr |-> Restrict(MixedTypes, {L_normalX, L_normalY, L_normalZ}),
       order |-> <<L_normalX, L_normalY, L_normalZ>>],
      [hdr |-> Restrict(MixedTypes, {L_R, L_G}), order |-> <<L_G, L_R>>],
      [hdr |-> Restrict(MixedTypes, {L_normalU}), order |-> <<L_normalU>>] }

Idle == [pc |-> "idle", unit |-> <<>>]
Main == <<"main">>
SeqToSet(q) == {q[i] : i \in 1..Len(q)}

\* target_folder.joinpath(append_channel_name_to_filename(...)), relative to the folder
TargetPath(unit) == <<unit.channel, append_channel_name_to_filename(unit.file, unit.channel)>>

\* the nested loops of separate(): for exr_file ... for channel_name ...
RECURSIVE ArgsOfFile(_, _)
ArgsOfFile(f, info_list) ==
    IF info_list = <<>> THEN <<>>
    ELSE <<[file |-> f, channel |-> info_list[1].name]>> \o ArgsOfFile(f, Tail(info_list))
RECURSIVE ProcessArgs(_, _)
ProcessArgs(files, info_list) ==
    IF files = <<>> THEN <<>>
    ELSE ArgsOfFile(files[1], info_list) \o ProcessArgs(Tail(files), info_list)

\* a variant in which a raised unit cancels the units still queued
QueueCancelledAfterRaise(queue) == <<>>

\* executor.map keeps a raised exception in the unit's future, which nobody reads: the
\* queue of the pool is left as it is
QueueAfterRaise(queue) == queue

HandlesOf(owner) == {h \in open_handles : h.owner = owner}

Init ==
    /\ exr_files \in FileLists
    /\ main_pc = "get_header"
    /\ process_args = <<>>
    /\ submitted = <<>>
    /\ workers = [w \in 1..NumWorkers |-> Idle]
    /\ fs = {} /\ written = {} /\ saved = {} /\ failed = {}
    /\ open_handles = {} /\ leaked = {} /\ faults = 0
    /\ header = <<>> /\ remaining = {} /\ channels_info = <<>> /\ cpc = "idle"
    /\ FilenameIdle

\* _get_header: OpenEXR.InputFile(str(self._exr_files[0]))
OpenHeaderFile ==
    /\ main_pc = "get_header"
    /\ \/ /\ exr_files = <<>>
          /\ main_pc' = "IndexError"
          /\ UNCHANGED open_handles
       \/ /\ exr_files # <<>>
          /\ open_handles' = open_handles \cup {[owner |-> Main, handle |-> "exr_file"]}
          /\ main_pc' = "header_open"
    /\ UNCHANGED <<exr_files, process_args, submitted, workers, fs, written, saved, failed,
                   leaked, faults>>
    /\ UNCHANGED <<catalogVars, filenameVars>>

\* the rest of _get_header, then _get_channels_info
ReadHeader ==
    /\ main_pc = "header_open"
    /\ \E h \in FirstFileHeaders :
        /\ header' = h.hdr
        /\ remaining' = {}
        /\ open_handles' = open_handles \ {[owner |-> Main, handle |-> "exr_file"]}
        /\ \/ /\ GetChannelsInfo(h.hdr, h.order).raised
              /\ cpc' = "KeyError"
              /\ main_pc' = "KeyError"
              /\ UNCHANGED channels_info
           \/ /\ ~GetChannelsInfo(h.hdr, h.order).raised
              /\ cpc' = "done"
              /\ channels_info' = GetChannelsInfo(h.hdr, h.order).info
              /\ main_pc' = "separate"
    /\ UNCHANGED <<exr_files, process_args, submitted, workers, fs, written, saved, failed,
                   leaked, faults>>
    /\ UNCHANGED filenameVars

\* separate(): build process_args and hand them to the pool
Submit ==
    /\ main_pc = "separate"
    /\ process_args' = ProcessArgs(exr_files, channels_info)
    /\ submitted' = ProcessArgs(exr_files, channels_info)
    /\ main_pc' = "waiting"
    /\ UNCHANGED <<exr_files, workers, fs, written, saved, failed, open_handles, leaked, faults>>
    /\ UNCHANGED <<catalogVars, filenameVars>>

\* a pool worker takes the next unit; save_channel finds its channel in the catalog
TakeUnit(w) ==
    /\ main_pc = "waiting"
    /\ workers[w].pc = "idle"
    /\ process_args # <<>>
    /\ workers' = [workers EXCEPT ![w] =
          IF process_args[1].channel \in Names(channels_info)
          THEN [pc |-> "open_source", unit |-> process_args[1]]
          ELSE Idle]
    /\ process_args' = Tail(process_args)
    /\ UNCHANGED <<exr_files, main_pc, submitted, fs, written, saved, failed, open_handles,
                   leaked, faults>>
    /\ UNCHANGED <<catalogVars, filenameVars>>

\* save_channel is left by an exception: nothing after the raising line runs
Raise(w) ==
    /\ failed' = failed \cup {workers[w].unit}
    /\ leaked' = leaked \cup HandlesOf(workers[w].unit)
    /\ open_handles' = open_handles \ HandlesOf(workers[w].unit)
    /\ workers' = [workers EXCEPT ![w] = Idle]
    /\ process_args' = QueueAfterRaise(process_args)

Fault == faults < MaxFaults /\ faults' = faults + 1

\* source_exr = OpenEXR.InputFile(str(exr_file))
OpenSource(w) ==
    /\ workers[w].pc = "open_source"
    /\ \/ /\ open_handles' = open_handles \cup {[owner |-> workers[w].unit, handle |-> "source_exr"]}
          /\ workers' = [workers EXCEPT ![w].pc = "make_folder"]
          /\ UNCHANGED <<failed, leaked, process_args, faults>>
       \/ /\ Fault
          /\ Raise(w)
    /\ UNCHANGED <<exr_files, main_pc, submitted, fs, written, saved>>
    /\ UNCHANGED <<catalogVars, filenameVars>>

\* header = source_exr.header() ... target_folder.mkdir(parents=True, exist_ok=True)
MakeFolder(w) ==
    /\ workers[w].pc = "make_folder"
    /\ \/ /\ workers' = [workers EXCEPT ![w].pc = "open_target"]
          /\ UNCHANGED <<failed, leaked, open_handles, process_args, faults>>
       \/ /\ Fault
          /\ Raise(w)
    /\ UNCHANGED <<exr_files, main_pc, submitted, fs, written, saved>>
    /\ UNCHANGED <<catalogVars, filenameVars>>

\* target_exr_file = ...append_channel_name_to_filename(...); OpenEXR.OutputFile(...)
OpenTarget(w) ==
    /\ workers[w].pc = "open_target"
    /\ \/ /\ ~AppendRaises(workers[w].unit.file, workers[w].unit.channel)
          /\ fs' = fs \cup {TargetPath(workers[w].unit)}
          /\ written' = written \cup {[unit |-> workers[w].unit, path |-> TargetPath(workers[w].unit)]}
          /\ open_handles' = open_handles \cup {[owner |-> workers[w].unit, handle |-> "target_exr"]}
          /\ workers' = [workers EXCEPT ![w].pc = "read_pixels"]
          /\ UNCHANGED <<failed, leaked, process_args, faults>>
       \/ /\ AppendRaises(workers[w].unit.file, workers[w].unit.channel)
          /\ Raise(w)
          /\ UNCHANGED <<fs, written, faults>>
       \/ /\ ~AppendRaises(workers[w].unit.file, workers[w].unit.channel)
          /\ Fault
          /\ Raise(w)
          /\ UNCHANGED <<fs, written>>
    /\ UNCHANGED <<exr_files, main_pc, submitted, saved>>
    /\ UNCHANGED <<catalogVars, filenameVars>>

\* pixels_data = channel_info.get_pixels_data(source_exr)
ReadPixels(w) ==
    /\ workers[w].pc = "read_pixels"
    /\ \/ /\ workers' = [workers EXCEPT ![w].pc = "write_pixels"]
          /\ UNCHANGED <<failed, leaked, open_handles, process_args, faults>>
       \/ /\ Fault
          /\ Raise(w)
    /\ UNCHANGED <<exr_files, main_pc, submitted, fs, written, saved>>
    /\ UNCHANGED <<catalogVars, filenameVars>>

\* target_exr.writePixels(pixels_data)
WritePixels(w) ==
    /\ workers[w].pc = "write_pixels"
    /\ \/ /\ workers' = [workers EXCEPT ![w].pc = "close"]
          /\ UNCHANGED <<failed, leaked, open_handles, process_args, faults>>
       \/ /\ Fault
          /\ Raise(w)
    /\ UNCHANGED <<exr_files, main_pc, submitted, fs, written, saved>>
    /\ UNCHANGED <<catalogVars, filenameVars>>

\* target_exr.close(); source_exr.close(); 'File saved'
CloseBoth(w) ==
    /\ workers[w].pc = "close"
    /\ open_handles' = open_handles \ HandlesOf(workers[w].unit)
    /\ saved' = saved \cup {workers[w].unit}
    /\ workers' = [workers EXCEPT ![w] = Idle]
    /\ UNCHANGED <<exr_files, main_pc, process_args, submitted, fs, written, failed, leaked, faults>>
    /\ UNCHANGED <<catalogVars, filenameVars>>

\* the `with ProcessPoolExecutor()` block is left once every submitted unit has ended
Return ==
    /\ main_pc = "waiting"
    /\ process_args = <<>>
    /\ \A w \in 1..NumWorkers : workers[w].pc = "idle"
    /\ main_pc' = "returned"
    /\ UNCHANGED <<exr_files, process_args, submitted, workers, fs, written, saved, failed,
                   open_handles, leaked, faults>>
    /\ UNCHANGED <<catalogVars, filenameVars>>

WorkerStep(w) ==
    \/ TakeUnit(w) \/ OpenSource(w) \/ MakeFolder(w) \/ OpenTarget(w)
    \/ ReadPixels(w) \/ WritePixels(w) \/ CloseBoth(w)

Next ==
    \/ OpenHeaderFile \/ ReadHeader \/ Submit \/ Return
    \/ \E w \in 1..NumWorkers : WorkerStep(w)

Spec == Init /\ [][Next]_vars

(***************************************************************************)
(* Claims about the separation (checked under Spec and FairSpec)           *)
(***************************************************************************)
Units == SeqToSet(submitted)
U_a1Z == [file |-> F_a1, channel |-> N_Z]
U_a1C == [file |-> F_a1, channel |-> N_C]
U_a2Z == [file |-> F_a2, channel |-> N_Z]

\* every unit that did not itself raise has been saved and its output file exists
OthersCompleted ==
    \A u \in Units : u \notin failed =>
        /\ u \in saved
        /\ \E p \in fs : [unit |-> u, path |-> p] \in written

\* C6: under any interleaving of the workers, the failure of one work unit at any step
\* does not prevent any other work unit from completing and producing its output file,
\* and separate() still returns: while it waits, every unit that has not ended is still
\* queued or running; once all have ended it can return; and once it has returned every
\* unit that did not itself fail has its output.
C6_WorkUnitIsolation ==
    /\ main_pc = "returned" => OthersCompleted
    /\ main_pc = "waiting" =>
          \A u \in Units \ (saved \cup failed) :
              \/ u \in SeqToSet(process_args)
              \/ \E w \in 1..NumWorkers : workers[w].pc # "idle" /\ workers[w].unit = u
    /\ (main_pc = "waiting" /\ Units \subseteq saved \cup failed) => ENABLED Return
    /\ saved \cap failed = {}

\* separate() returned after (file a1, channel Z) failed, with (a1, C) and (a2, Z) saved
C6_Witness ==
    /\ main_pc = "returned"
    /\ U_a1Z \in failed
    /\ {U_a1C, U_a2Z} \subseteq saved

\* C7: the work units are exactly files x catalog channel names, a unit writes only a
\* path in the folder of its channel, no two distinct units write the same output path,
\* and when no unit fails the run ends with |files| x |groups| output files.
C7_UnitsAndPathsDistinct ==
    /\ main_pc \in {"waiting", "returned"} =>
          /\ Units = {[file |-> f, channel |-> c] : f \in SeqToSet(exr_files), c \in Names(channels_info)}
          /\ Len(submitted) = Len(exr_files) * Len(channels_info)
          /\ Cardinality(Units) = Len(submitted)
    /\ \A x \in written :
          /\ x.unit \in Units
          /\ x.path[1] = x.unit.channel
          /\ \A y \in written :
                /\ x.path = y.path => x.unit = y.unit
                /\ x.unit = y.unit => x.path = y.path
    /\ fs = {x.path : x \in written}
    /\ (main_pc = "returned" /\ failed = {}) =>
          Cardinality(fs) = Len(exr_files) * Len(channels_info)

\* a run of two files and two groups ended without failure
C7_Witness ==
    /\ main_pc = "returned"
    /\ failed = {}
    /\ Len(exr_files) = 2
    /\ Len(channels_info) = 2
    /\ Cardinality(fs) = 4

\* C8: every handle that was opened is closed by the time its operation ends, on every
\* exit path.
C8_HandlesClosed == leaked = {}

====
